---------------------------- MODULE Spec2Model ----------------------------
(***************************************************************************)
(* Model of src/arxiv_dev.py: download_and_scan_papers (the per-document   *)
(* download / open / scan / archive loop), archive_urls (the Wayback       *)
(* availability query and save request) and the GitHub link pattern        *)
(* github_url_pattern.findall.                                             *)
(*                                                                         *)
(* Text is a sequence of characters.  A character is a one-character      *)
(* string; a character that cannot be written in a string of this language *)
(* is the string of its code point, "U+2028".  Every call to a             *)
(* collaborator (filesystem, download, PyMuPDF, requests) and every        *)
(* logger.info line is appended, in program order, to the variable trace;  *)
(* in download_and_scan_papers trace starts afresh with each item, and the *)
(* error lines of the whole call are kept in errors.                       *)
(***************************************************************************)
EXTENDS Integers, Sequences, FiniteSets, TLC

VARIABLES
    mode,            \* which function was called: "pipeline", "archive", "findall"
    results,         \* download_and_scan_papers: the list of Result objects
    trigger_archive, \* download_and_scan_papers: the flag
    dir_exists,      \* the directory dir_path exists
    files,           \* the directory: file name -> "absent", "corrupt" or a document
    pc,              \* position in the running function
    idx,             \* 1-based index of the result the for loop of line 48 is at
    doc,             \* the document fitz.open returned (line 55)
    pageIdx,         \* 1-based index of the page the for loop of line 62 is at
    text,            \* page.get_text() (line 63)
    github_urls,     \* github_url_pattern.findall(text) (line 64)
    urlIdx,          \* 1-based index of the url the for loop of line 69 is at
    urls,            \* archive_urls: the list of URLs it was called with
    aIdx,            \* 1-based index of the url the for loop of line 86 is at
    trace,           \* calls and log lines, in order, since the item began
    errors           \* the "Error processing" lines of line 76 so far

vars == <<mode, results, trigger_archive, dir_exists, files, pc, idx, doc, pageIdx,
          text, github_urls, urlIdx, urls, aIdx, trace, errors>>

\* the arguments of the call: they never change
params == <<mode, results, trigger_archive>>

\* the local variables of the page and url loops of download_and_scan_papers
scan == <<doc, pageIdx, text, github_urls, urlIdx>>

-----------------------------------------------------------------------------
(* Bounds of the model *)

\* longest list of results given to download_and_scan_papers
MaxResults == 2
\* longest list of URLs given to archive_urls when it is called directly
MaxUrls == 2
\* most chunks concatenated into a text given to findall
MaxChunks == 3

-----------------------------------------------------------------------------
(* Characters and literals *)

\* The pattern of line 46 is a str pattern: \s matches the Unicode white
\* space, 29 characters in all.  Those without an escape in this language
\* are named here by their code point.
VT    == ""   \* U+000B, vertical tab
FS    == ""   \* U+001C, file separator
GS    == ""   \* U+001D, group separator
RS    == ""   \* U+001E, record separator
US    == ""   \* U+001F, unit separator
NEL   == ""   \* U+0085, next line
NBSP  == " "   \* U+00A0, no-break space
OGHAM == " "   \* U+1680, ogham space mark

\* U+0009..U+000D, U+001C..U+001F, U+0020, U+0085, U+00A0, U+1680
WrittenSpaces == {"\t", "\n", VT, "\f", "\r", FS, GS, RS, US, " ", NEL, NBSP, OGHAM}

\* U+2000..U+200A, U+2028, U+2029, U+202F, U+205F, U+3000
CodePointSpaces == {"U+2000", "U+2001", "U+2002", "U+2003", "U+2004", "U+2005",
                    "U+2006", "U+2007", "U+2008", "U+2009", "U+200A",
                    "U+2028", "U+2029", "U+202F", "U+205F", "U+3000"}

\* what \s matches
Whitespace == WrittenSpaces \cup CodePointSpaces

HttpLit == <<"h", "t", "t", "p">>

HostLit == <<":", "/", "/", "g", "i", "t", "h", "u", "b", ".", "c", "o", "m", "/">>

\* a character class that forgets the comma: [^\s]
TailCharKeepsComma(c) == c \notin Whitespace

\* the character class [^\s,]
TailChar(c) == c \notin Whitespace /\ c # ","

\* the literal lit occurs in t at position i
Lit(t, i, lit) ==
    /\ i >= 1
    /\ i + Len(lit) - 1 <= Len(t)
    /\ \A k \in 1..Len(lit) : t[i + k - 1] = lit[k]

\* [^\s,]+ is greedy: the last position of the run of class characters that
\* starts at k (k itself is a class character)
RECURSIVE RunEnd(_, _)
RunEnd(t, k) ==
    IF k + 1 <= Len(t) /\ TailChar(t[k + 1]) THEN RunEnd(t, k + 1) ELSE k

\* ://github\.com/[^\s,]+ tried at position j: the last position matched, or 0
RestEnd(t, j) ==
    IF Lit(t, j, HostLit) /\ j + Len(HostLit) <= Len(t)
                          /\ TailChar(t[j + Len(HostLit)])
    THEN RunEnd(t, j + Len(HostLit))
    ELSE 0

\* https?://github\.com/[^\s,]+ tried at position i: the last position
\* matched, or 0.  s? is greedy: the branch with the s is tried first and the
\* branch without it on backtracking.
MatchEnd(t, i) ==
    IF ~Lit(t, i, HttpLit) THEN 0
    ELSE LET j == i + Len(HttpLit)
             withS == IF j <= Len(t) /\ t[j] = "s" THEN RestEnd(t, j + 1) ELSE 0
         IN  IF withS # 0 THEN withS ELSE RestEnd(t, j)

\* re.findall scans left to right; after a match it resumes right after it,
\* otherwise one character further
RECURSIVE FindAllFrom(_, _)
FindAllFrom(t, i) ==
    IF i > Len(t) THEN <<>>
    ELSE LET e == MatchEnd(t, i)
         IN  IF e # 0 THEN <<SubSeq(t, i, e)>> \o FindAllFrom(t, e + 1)
             ELSE FindAllFrom(t, i + 1)

\* github_url_pattern.findall(text)
FindAll(t) == FindAllFrom(t, 1)

-----------------------------------------------------------------------------
(* Result objects, documents and the directory *)

\* position of the last "/" of s, or 0
LastSlash(s) ==
    LET at == {k \in 1..Len(s) : s[k] = "/"}
    IN  IF at = {} THEN 0 ELSE CHOOSE k \in at : \A m \in at : m <= k

\* entry_id.split('/')[-1]
Identifier(entry_id) == SubSeq(entry_id, LastSlash(entry_id) + 1, Len(entry_id))

\* dir_path / f"{identifier}.pdf": the file's name inside the directory
FilePath(r) == Identifier(r.entry_id) \o <<".", "p", "d", "f">>

UrlA == HttpLit \o HostLit \o <<"a">>
UrlB == HttpLit \o <<"s">> \o HostLit \o <<"b">>

\* page texts of the documents below
PageTwoLinks == <<"s", "e", "e", " ">> \o UrlA \o <<",", " ">> \o UrlA \o <<"\n">>
PageLinkB    == UrlB \o <<NBSP, "x">>
PageLinkA    == <<"(">> \o UrlA
PageNoLink   == <<"g", "i", "t", "h", "u", "b", ".", "c", "o", "m", "/", "a">>

\* a document is the sequence of its pages' texts
Pages(d) ==
    CASE d = "DocTwo"   -> <<PageTwoLinks>>
      [] d = "DocPages" -> <<PageLinkB, PageLinkA>>
      [] d = "DocPlain" -> <<PageNoLink>>
      [] OTHER          -> <<>>

Documents == {"DocTwo", "DocPages", "DocPlain"}

\* the Result objects the inputs are drawn from; the first and the third
\* have different locators with the same last segment
Results == {
    [entry_id |-> <<"a", "/", "1">>, title |-> <<"T">>, pdf |-> "DocTwo"],
    [entry_id |-> <<"a", "/", "2">>, title |-> <<"P">>, pdf |-> "DocPages"],
    [entry_id |-> <<"b", "/", "1">>, title |-> <<"N">>, pdf |-> "DocPlain"] }

FileNames == {FilePath(r) : r \in Results}

\* what a file of the directory may hold before the run: nothing, an
\* unreadable file, or the document of a result that is stored under that name
Contents(f) == {"absent", "corrupt"} \cup {r.pdf : r \in {x \in Results : FilePath(x) = f}}

RECURSIVE SeqsUpTo(_, _)
SeqsUpTo(S, n) ==
    IF n = 0 THEN {<<>>}
    ELSE LET shorter == SeqsUpTo(S, n - 1)
         IN  shorter \cup {Append(s, x) : s \in {q \in shorter : Len(q) = n - 1}, x \in S}

\* the status codes the save endpoint answers with
Statuses == {200, 201, 500}

\* data['archived_snapshots']['closest']['url'] of the availability answer
ClosestUrl(url) == <<"w", "/">> \o url

\* chunks the texts given to findall are built from
Chunks == { HttpLit \o HostLit, HttpLit \o <<"s">> \o HostLit, UrlA,
            HttpLit \o <<"s">>, <<"a">>, <<",">>, <<" ">>, <<"\n">>,
            <<VT>>, <<"U+2028">> }

RECURSIVE Concat(_)
Concat(ss) == IF ss = <<>> THEN <<>> ELSE Head(ss) \o Concat(Tail(ss))

Texts == {Concat(ss) : ss \in SeqsUpTo(Chunks, MaxChunks)}

-----------------------------------------------------------------------------
(* The trace *)

Ev(e, i, a, r, c) == [ev |-> e, item |-> i, arg |-> a, res |-> r, code |-> c]

\* a logger.info line
Log(e, i, a, c) == Ev(e, i, a, "log", c)

Cur == results[idx]

CurId == Identifier(Cur.entry_id)

\* the item the events of archive_urls belong to (0 when called directly)
Item == IF mode = "pipeline" THEN idx ELSE 0

\* no except clause: the exception leaves download_and_scan_papers
CaughtAborts(evs) ==
    /\ trace' = trace \o evs
    /\ pc' = "raised"
    /\ UNCHANGED errors

\* line 75-76: the except clause of the item: one log line with the
\* identifier, then the for loop of line 48 goes on
Caught(evs) ==
    /\ trace' = trace \o evs \o <<Log("log_error", idx, CurId, 0)>>
    /\ errors' = Append(errors, [item |-> idx, id |-> CurId])
    /\ pc' = "for"

-----------------------------------------------------------------------------
(* download_and_scan_papers *)

InitPipeline ==
    /\ mode = "pipeline"
    /\ results \in SeqsUpTo(Results, MaxResults)
    /\ trigger_archive \in BOOLEAN
    /\ dir_exists \in BOOLEAN
    /\ files \in {f \in [FileNames -> {"absent", "corrupt"} \cup Documents] :
                     \A n \in FileNames :
                         f[n] \in IF dir_exists /\ \E k \in 1..Len(results) : FilePath(results[k]) = n
                                  THEN Contents(n) ELSE {"absent"}}
    /\ pc = "mkdir"
    /\ idx = 0
    /\ doc = "none"
    /\ pageIdx = 0
    /\ text = <<>>
    /\ github_urls = <<>>
    /\ urlIdx = 0
    /\ urls = <<>>
    /\ aIdx = 0
    /\ trace = <<>>
    /\ errors = <<>>

\* line 43-44: dir_path.mkdir(parents=True, exist_ok=True)
Mkdir ==
    /\ mode = "pipeline" /\ pc = "mkdir"
    /\ dir_exists' = TRUE
    /\ trace' = Append(trace, Ev("mkdir", 0, <<>>, "ok", 0))
    /\ pc' = "for"
    /\ UNCHANGED <<params, files, idx, scan, urls, aIdx, errors>>

\* line 44 raising (the directory cannot be created): it is outside the try,
\* the call ends with the exception
MkdirRaises ==
    /\ mode = "pipeline" /\ pc = "mkdir"
    /\ ~dir_exists
    /\ trace' = Append(trace, Ev("mkdir", 0, <<>>, "raise", 0))
    /\ pc' = "raised"
    /\ UNCHANGED <<params, dir_exists, files, idx, scan, urls, aIdx, errors>>

\* the existence test inverted: an existing file is downloaded again
ForNextInverted ==
    /\ mode = "pipeline" /\ pc = "for"
    /\ idx < Len(results)
    /\ idx' = idx + 1
    /\ LET r == results[idx + 1]
           there == files[FilePath(r)] # "absent"
       IN  /\ trace' = <<Ev("exists", idx + 1, FilePath(r), IF there THEN "yes" ELSE "no", 0)>>
           /\ pc' = IF there THEN "download" ELSE "open"
    /\ UNCHANGED <<params, dir_exists, files, scan, urls, aIdx, errors>>

\* line 48-51: the next result, its file path and file_path.exists()
ForNext ==
    /\ mode = "pipeline" /\ pc = "for"
    /\ idx < Len(results)
    /\ idx' = idx + 1
    /\ LET r == results[idx + 1]
           there == files[FilePath(r)] # "absent"
       IN  /\ trace' = <<Ev("exists", idx + 1, FilePath(r), IF there THEN "yes" ELSE "no", 0)>>
           /\ pc' = IF there THEN "open" ELSE "download"
    /\ UNCHANGED <<params, dir_exists, files, scan, urls, aIdx, errors>>

\* line 48-51 raising: file_path.exists() re-raises an OSError other than
\* "no such file" (the directory is not searchable, the name is too long);
\* it is inside the try: the item has its error line and no other call
ForNextRaises ==
    /\ mode = "pipeline" /\ pc = "for"
    /\ idx < Len(results)
    /\ idx' = idx + 1
    /\ LET r == results[idx + 1]
       IN  /\ trace' = << Ev("exists", idx + 1, FilePath(r), "raise", 0),
                          Log("log_error", idx + 1, Identifier(r.entry_id), 0) >>
           /\ errors' = Append(errors, [item |-> idx + 1, id |-> Identifier(r.entry_id)])
    /\ pc' = "for"
    /\ UNCHANGED <<params, dir_exists, files, scan, urls, aIdx>>

\* the loop may stop before the list is exhausted
ForEndEarly ==
    /\ mode = "pipeline" /\ pc = "for"
    /\ idx <= Len(results)
    /\ pc' = "done"
    /\ UNCHANGED <<params, dir_exists, files, idx, scan, urls, aIdx, trace, errors>>

\* line 48: the list is exhausted, the function returns None
ForEnd ==
    /\ mode = "pipeline" /\ pc = "for"
    /\ idx = Len(results)
    /\ pc' = "done"
    /\ UNCHANGED <<params, dir_exists, files, idx, scan, urls, aIdx, trace, errors>>

\* line 52: result.download_pdf(filename=str(file_path)) writes the file
Download ==
    /\ mode = "pipeline" /\ pc = "download"
    /\ files' = [files EXCEPT ![FilePath(Cur)] = Cur.pdf]
    /\ trace' = Append(trace, Ev("download", idx, FilePath(Cur), "ok", 0))
    /\ pc' = "open"
    /\ UNCHANGED <<params, dir_exists, idx, scan, urls, aIdx, errors>>

\* line 52 raising: nothing, or a partial file, is left at the path
DownloadRaises ==
    /\ mode = "pipeline" /\ pc = "download"
    /\ \E left \in {"absent", "corrupt"} :
           files' = [files EXCEPT ![FilePath(Cur)] = left]
    /\ Caught(<<Ev("download", idx, FilePath(Cur), "raise", 0)>>)
    /\ UNCHANGED <<params, dir_exists, idx, scan, urls, aIdx>>

\* line 55-59: fitz.open(file_path), then the three log lines
Open ==
    /\ mode = "pipeline" /\ pc = "open"
    /\ files[FilePath(Cur)] \in Documents
    /\ doc' = files[FilePath(Cur)]
    /\ pageIdx' = 0
    /\ trace' = trace \o << Ev("open", idx, FilePath(Cur), "ok", 0),
                            Log("log_blank", idx, <<>>, 0),
                            Log("log_paper", idx, Cur.title, 0),
                            Log("log_id", idx, CurId, 0) >>
    /\ pc' = "pages"
    /\ UNCHANGED <<params, dir_exists, files, idx, text, github_urls, urlIdx,
                   urls, aIdx, errors>>

\* line 55 raising (an unreadable file always does, a readable one may)
OpenRaises ==
    /\ mode = "pipeline" /\ pc = "open"
    /\ Caught(<<Ev("open", idx, FilePath(Cur), "raise", 0)>>)
    /\ UNCHANGED <<params, dir_exists, files, idx, scan, urls, aIdx>>

\* line 62-68: the next page, its text, the links of the text and, when
\* there are some, the "GitHub URLs found:" line
PageNext ==
    /\ mode = "pipeline" /\ pc = "pages"
    /\ pageIdx < Len(Pages(doc))
    /\ pageIdx' = pageIdx + 1
    /\ text' = Pages(doc)[pageIdx + 1]
    /\ github_urls' = FindAll(text')
    /\ urlIdx' = 0
    /\ trace' = trace \o <<Ev("get_text", idx, <<>>, "ok", pageIdx + 1)>>
                      \o (IF github_urls' # <<>>
                          THEN <<Log("log_found", idx, <<>>, pageIdx + 1)>> ELSE <<>>)
    /\ pc' = IF github_urls' # <<>> THEN "urls" ELSE "pages"
    /\ UNCHANGED <<params, dir_exists, files, idx, doc, urls, aIdx, errors>>

\* line 62-63 raising: the page cannot be loaded or its text not extracted
PageRaises ==
    /\ mode = "pipeline" /\ pc = "pages"
    /\ pageIdx < Len(Pages(doc))
    /\ Caught(<<Ev("get_text", idx, <<>>, "raise", pageIdx + 1)>>)
    /\ UNCHANGED <<params, dir_exists, files, idx, scan, urls, aIdx>>

\* line 62: no page is left, the item is finished
PagesEnd ==
    /\ mode = "pipeline" /\ pc = "pages"
    /\ pageIdx = Len(Pages(doc))
    /\ pc' = "for"
    /\ UNCHANGED <<params, dir_exists, files, idx, scan, urls, aIdx, trace, errors>>

\* archive_urls called whatever the flag says
UrlArchiveRegardless ==
    /\ mode = "pipeline" /\ pc = "urls"
    /\ urlIdx < Len(github_urls)
    /\ urlIdx' = urlIdx + 1
    /\ urls' = <<github_urls[urlIdx + 1]>>
    /\ aIdx' = 0
    /\ pc' = "archive"
    /\ UNCHANGED <<params, dir_exists, files, idx, doc, pageIdx, text, github_urls,
                   trace, errors>>

\* line 69-71: the next url with trigger_archive set: archive_urls([url])
UrlArchive ==
    /\ mode = "pipeline" /\ pc = "urls"
    /\ urlIdx < Len(github_urls)
    /\ trigger_archive
    /\ urlIdx' = urlIdx + 1
    /\ urls' = <<github_urls[urlIdx + 1]>>
    /\ aIdx' = 0
    /\ pc' = "archive"
    /\ UNCHANGED <<params, dir_exists, files, idx, doc, pageIdx, text, github_urls,
                   trace, errors>>

\* line 69-73: the next url with trigger_archive unset: logger.info(url)
UrlLog ==
    /\ mode = "pipeline" /\ pc = "urls"
    /\ urlIdx < Len(github_urls)
    /\ ~trigger_archive
    /\ urlIdx' = urlIdx + 1
    /\ trace' = Append(trace, Log("log_url", idx, github_urls[urlIdx + 1], pageIdx))
    /\ UNCHANGED <<params, dir_exists, files, pc, idx, doc, pageIdx, text, github_urls,
                   urls, aIdx, errors>>

\* line 69, 74: no url is left on the page: the closing blank line
UrlsEnd ==
    /\ mode = "pipeline" /\ pc = "urls"
    /\ urlIdx = Len(github_urls)
    /\ trace' = Append(trace, Log("log_blank", idx, <<>>, pageIdx))
    /\ pc' = "pages"
    /\ UNCHANGED <<params, dir_exists, files, idx, scan, urls, aIdx, errors>>

-----------------------------------------------------------------------------
(* archive_urls *)

InitArchive ==
    /\ mode = "archive"
    /\ urls \in SeqsUpTo({UrlA, UrlB}, MaxUrls)
    /\ aIdx = 0
    /\ pc = "archive"
    /\ results = <<>>
    /\ trigger_archive = TRUE
    /\ dir_exists = FALSE
    /\ files = [n \in FileNames |-> "absent"]
    /\ idx = 0
    /\ doc = "none"
    /\ pageIdx = 0
    /\ text = <<>>
    /\ github_urls = <<>>
    /\ urlIdx = 0
    /\ trace = <<>>
    /\ errors = <<>>

\* the exception swallowed around the archive_urls call: the next url of the
\* page is handled
PropagateSkipsUrl(evs) ==
    /\ trace' = trace \o evs
    /\ pc' = IF mode = "pipeline" THEN "urls" ELSE "raised"
    /\ UNCHANGED errors

\* an exception leaving archive_urls: the caller's except clause (line 75-76)
\* catches it inside download_and_scan_papers; a direct call ends with it
Propagate(evs) ==
    IF mode = "pipeline" THEN Caught(evs)
    ELSE /\ trace' = trace \o evs
         /\ pc' = "raised"
         /\ UNCHANGED errors

\* what archive_urls never touches
outer == <<params, dir_exists, files, idx, scan, urls>>

\* line 86-88 raising: requests.get fails, or the body is not the JSON
\* object response.json() and data.get need
GetRaises ==
    /\ pc = "archive" /\ aIdx < Len(urls)
    /\ Propagate(<<Ev("GET", Item, urls[aIdx + 1], "raise", 0)>>)
    /\ UNCHANGED <<outer, aIdx>>

\* the save request sent although a snapshot was reported
GetArchivedThenSaves ==
    /\ pc = "archive" /\ aIdx < Len(urls)
    /\ LET url == urls[aIdx + 1]
       IN  trace' = trace \o << Ev("GET", Item, url, "snapshot", 0),
                                Log("log_already", Item, url, 0),
                                Log("log_snapshot", Item, ClosestUrl(url), 0) >>
    /\ pc' = "post"
    /\ UNCHANGED <<outer, aIdx, errors>>

\* line 86-92: the answer holds archived_snapshots.closest.url
GetArchived ==
    /\ pc = "archive" /\ aIdx < Len(urls)
    /\ LET url == urls[aIdx + 1]
       IN  trace' = trace \o << Ev("GET", Item, url, "snapshot", 0),
                                Log("log_already", Item, url, 0),
                                Log("log_snapshot", Item, ClosestUrl(url), 0) >>
    /\ aIdx' = aIdx + 1
    /\ UNCHANGED <<outer, pc, errors>>

\* line 86-92: archived_snapshots is there and not empty but holds no
\* closest.url: line 91 logs, line 92 raises KeyError
GetNoClosest ==
    /\ pc = "archive" /\ aIdx < Len(urls)
    /\ LET url == urls[aIdx + 1]
       IN  Propagate(<< Ev("GET", Item, url, "noclosest", 0),
                        Log("log_already", Item, url, 0) >>)
    /\ UNCHANGED <<outer, aIdx>>

\* line 86-94: archived_snapshots is missing or empty
GetNotArchived ==
    /\ pc = "archive" /\ aIdx < Len(urls)
    /\ LET url == urls[aIdx + 1]
       IN  trace' = trace \o << Ev("GET", Item, url, "none", 0),
                                Log("log_not_yet", Item, url, 0) >>
    /\ pc' = "post"
    /\ UNCHANGED <<outer, aIdx, errors>>

\* the status test inverted
SaveReportInverted(url, status) ==
    IF status # 200
    THEN Log("log_success", Item, url, 0)
    ELSE Log("log_failed", Item, url, status)

\* the log line for the status the save request was answered with (line 99-106)
SaveReport(url, status) ==
    IF status = 200
    THEN Log("log_success", Item, url, 0)
    ELSE Log("log_failed", Item, url, status)

\* raise_for_status() on the save response: a status other than 200 raises
PostRaisesForStatus ==
    /\ pc = "post"
    /\ \E status \in Statuses :
         LET url == urls[aIdx + 1]
         IN  IF status = 200
             THEN /\ trace' = trace \o << Ev("POST", Item, url, "status", status),
                                          Log("log_success", Item, url, 0) >>
                  /\ aIdx' = aIdx + 1
                  /\ pc' = "archive"
                  /\ UNCHANGED errors
             ELSE /\ Propagate(<<Ev("POST", Item, url, "status", status)>>)
                  /\ UNCHANGED aIdx
    /\ UNCHANGED outer

\* line 95-106: requests.post answered with a status code
Post ==
    /\ pc = "post"
    /\ \E status \in Statuses :
         LET url == urls[aIdx + 1]
         IN  trace' = trace \o << Ev("POST", Item, url, "status", status),
                                  SaveReport(url, status) >>
    /\ aIdx' = aIdx + 1
    /\ pc' = "archive"
    /\ UNCHANGED <<outer, errors>>

\* line 95-98 raising: requests.post fails
PostRaises ==
    /\ pc = "post"
    /\ Propagate(<<Ev("POST", Item, urls[aIdx + 1], "raise", 0)>>)
    /\ UNCHANGED <<outer, aIdx>>

\* line 86: the list is exhausted, archive_urls returns None
ArchiveReturn ==
    /\ pc = "archive" /\ aIdx = Len(urls)
    /\ pc' = IF mode = "pipeline" THEN "urls" ELSE "done"
    /\ UNCHANGED <<outer, aIdx, trace, errors>>

-----------------------------------------------------------------------------
(* github_url_pattern.findall on its own *)

InitFindAll ==
    /\ mode = "findall"
    /\ text \in Texts
    /\ github_urls = <<>>
    /\ pc = "findall"
    /\ results = <<>>
    /\ trigger_archive = FALSE
    /\ dir_exists = FALSE
    /\ files = [n \in FileNames |-> "absent"]
    /\ idx = 0
    /\ doc = "none"
    /\ pageIdx = 0
    /\ urlIdx = 0
    /\ urls = <<>>
    /\ aIdx = 0
    /\ trace = <<>>
    /\ errors = <<>>

\* line 64: github_urls = github_url_pattern.findall(text)
Scan ==
    /\ mode = "findall" /\ pc = "findall"
    /\ github_urls' = FindAll(text)
    /\ pc' = "done"
    /\ UNCHANGED <<params, dir_exists, files, idx, doc, pageIdx, text, urlIdx,
                   urls, aIdx, trace, errors>>

-----------------------------------------------------------------------------
(* Specifications *)

ArchiveNext ==
    \/ GetRaises
    \/ GetArchived
    \/ GetNoClosest
    \/ GetNotArchived
    \/ Post
    \/ PostRaises
    \/ ArchiveReturn

Next ==
    \/ Mkdir
    \/ MkdirRaises
    \/ ForNext
    \/ ForNextRaises
    \/ ForEnd
    \/ Download
    \/ DownloadRaises
    \/ Open
    \/ OpenRaises
    \/ PageNext
    \/ PageRaises
    \/ PagesEnd
    \/ UrlArchive
    \/ UrlLog
    \/ UrlsEnd
    \/ ArchiveNext

\* download_and_scan_papers
Spec == InitPipeline /\ [][Next]_vars

\* download_and_scan_papers when every step that can be taken is taken in the
\* end: the program is sequential and every collaborator call returns
LiveSpec == Spec /\ WF_vars(Next)

\* archive_urls called directly
SpecArchive == InitArchive /\ [][ArchiveNext]_vars

\* the link pattern applied to a text
SpecFindAll == InitFindAll /\ [][Scan]_vars

-----------------------------------------------------------------------------
(* Reading the trace *)

Pos == 1..Len(trace)

\* the arguments of the events of kind e in the trace, in order
ArgsOf(e) ==
    LET hit(x) == x.ev = e
        sel == SelectSeq(trace, hit)
    IN  [k \in 1..Len(sel) |-> sel[k].arg]

\* how many events of kind e the trace has
CountOf(e) == Len(ArgsOf(e))

\* an exception was raised since the trace began
Raised ==
    \E k \in Pos : trace[k].res \in {"raise", "noclosest"}

\* the for loop of line 48 is at an item and through with it
Finished == idx >= 1 /\ pc \in {"for", "done"}

\* the for loop of line 48 is at an item
InItem == mode = "pipeline" /\ idx >= 1

\* what the file of the current item holds
FileOfCur == files[FilePath(Cur)]

\* every link match of a document, page by page
RECURSIVE LinksFrom(_, _)
LinksFrom(pages, p) ==
    IF p > Len(pages) THEN <<>> ELSE FindAll(pages[p]) \o LinksFrom(pages, p + 1)

AllLinks(d) == LinksFrom(Pages(d), 1)

IsPrefix(s, t) == Len(s) <= Len(t) /\ \A k \in 1..Len(s) : s[k] = t[k]

\* the links the current item has handled so far: archived with the flag
\* set, logged without it
Handled == ArgsOf(IF trigger_archive THEN "GET" ELSE "log_url")

\* the error line of the current item
CurError == [item |-> idx, id |-> Identifier(results[idx].entry_id)]

\* the current item has an error line
HasError == \E k \in 1..Len(errors) : errors[k].item = idx

-----------------------------------------------------------------------------
(* Claims on download_and_scan_papers *)

\* in every state: no exception raised while an item is processed leaves
\* the function; it returns only after the last item; the error lines are
\* in item order, at most one per item, each with its item's identifier; an
\* item that is through has an error line exactly if it raised, and if it
\* did not, every link of its document was archived or reported
C1_Isolated ==
    /\ idx >= 1 => pc # "raised"
    /\ pc = "done" => idx = Len(results)
    /\ \A k \in 1..Len(errors) :
         /\ errors[k].item \in 1..idx
         /\ errors[k].id = Identifier(results[errors[k].item].entry_id)
         /\ k < Len(errors) => errors[k].item < errors[k + 1].item
    /\ InItem => (HasError => Finished /\ Raised)
    /\ Finished =>
         IF Raised
         THEN HasError /\ trace[Len(trace)] = Log("log_error", idx, CurError.id, 0)
                       /\ CountOf("log_error") = 1
         ELSE ~HasError /\ CountOf("log_error") = 0 /\ Handled = AllLinks(FileOfCur)

\* in every step: the items are taken one by one, in input order, each
\* begun by the existence test of its own file, whatever the items before
\* did; the test answers for the state of the directory or raises; an error
\* line is added only by a step that raised, it is the line of the item the
\* step belongs to, and the loop then stands before the next item
C1_Step ==
    /\ idx' # idx =>
         /\ idx' = idx + 1
         /\ trace'[1].ev = "exists" /\ trace'[1].item = idx'
         /\ trace'[1].arg = FilePath(results[idx'])
         /\ trace'[1].res \in
                {IF files[FilePath(results[idx'])] = "absent" THEN "no" ELSE "yes", "raise"}
         /\ trace'[1].res = "raise" <=> errors' # errors
         /\ Len(trace') = IF trace'[1].res = "raise" THEN 2 ELSE 1
    /\ errors' # errors =>
         /\ errors' = Append(errors, [item |-> idx', id |-> Identifier(results[idx'].entry_id)])
         /\ trace'[Len(trace')] = Log("log_error", idx', Identifier(results[idx'].entry_id), 0)
         /\ pc' = "for"

\* C1: per-item failure isolation.  Whatever items raise (in the existence
\* test, download, open, text extraction or archiving), every item of the input is attempted, a
\* failing item has exactly one error line, carrying its identifier, the
\* call returns without raising, and an item that does not raise has its
\* links archived or reported although items before it raised.
C1_FailureIsolation == []C1_Isolated /\ [][C1_Step]_vars

\* the first of two items raised, the second did not and its links were handled
C1_Witness ==
    /\ pc = "done" /\ Len(results) = 2
    /\ errors = <<[item |-> 1, id |-> Identifier(results[1].entry_id)]>>
    /\ ~Raised /\ Handled # <<>>

\* C2 as stated: an item that is through has its title and identifier
\* reported only if a link was found in its document, and then exactly once.
C2_TitleOnlyWithLinks ==
    Finished =>
        LET n == IF CountOf("log_found") > 0 THEN 1 ELSE 0
        IN  CountOf("log_paper") = n /\ CountOf("log_id") = n

\* the file of the current item was absent when the item began: the
\* existence test said so, or it raised and the directory has no such file
\* (an item whose test raised writes no file)
AbsentAtStart ==
    \/ trace[1].res = "no"
    \/ trace[1].res = "raise" /\ FileOfCur = "absent"

\* C3 as stated: an item whose path holds a file has no download call; an
\* item whose path holds no file has exactly one, before any open.
C3_DownloadDecidedByFile ==
    (InItem /\ pc # "download") =>
      /\ CountOf("download") = IF AbsentAtStart THEN 1 ELSE 0
      /\ \A k \in Pos :
           (trace[k].ev = "open" /\ AbsentAtStart) =>
               \E j \in 1..(k - 1) : trace[j].ev = "download"

\* C3, amended: download skip.  An item begins with the existence test of
\* its own file.  When the test answers, its answer is the state of the
\* directory; after "yes" the next call is the open of that very file,
\* whatever it holds, and the item has no download call; after "no" the next
\* call is the download to that path, there is exactly one, and the file is
\* opened only after it succeeded.  When the test itself raises, the item
\* has its error line and neither a download nor an open call.
C3_DownloadSkip ==
    InItem =>
      /\ trace[1].ev = "exists" /\ trace[1].item = idx
      /\ trace[1].arg = FilePath(Cur)
      /\ trace[1].res \in {"yes", "no", "raise"}
      /\ \A k \in Pos :
           LET e == trace[k] IN
           /\ e.ev = "exists" => k = 1
           /\ (e.ev = "exists" /\ e.res # "raise" /\ k < Len(trace)) =>
                  /\ trace[k + 1].arg = e.arg
                  /\ trace[k + 1].ev = IF e.res = "yes" THEN "open" ELSE "download"
           /\ e.ev = "download" => k = 2 /\ trace[1].res = "no"
           /\ e.ev = "open" =>
                  \/ k = 2 /\ trace[1].res = "yes"
                  \/ k = 3 /\ trace[2] = Ev("download", idx, e.arg, "ok", 0)
      /\ CountOf("download") = IF trace[1].res = "no" /\ pc # "download" THEN 1 ELSE 0
      /\ trace[1].res = "raise" =>
             /\ trace = <<trace[1], Log("log_error", idx, CurError.id, 0)>>
             /\ pc \in {"for", "done"}
      /\ Len(trace) = 1 =>
             /\ trace[1].res = "yes" <=> FileOfCur # "absent"
             /\ pc = IF trace[1].res = "yes" THEN "open" ELSE "download"

\* an item found a file that holds another document than its own, opened it
\* without a download and is through
C3_Witness ==
    /\ Finished /\ ~Raised
    /\ FileOfCur \in Documents /\ FileOfCur # Cur.pdf
    /\ trace[1].res = "yes" /\ trace[2].ev = "open" /\ CountOf("download") = 0

\* in every state: when the availability query of a link of the current
\* item has failed (the request or its body, or a snapshot record with no
\* closest.url, which has logged "already archived" first), the next and
\* last line of the item is its error line, with its identifier: no link of
\* the same page or of a later page is archived or reported after it
C7_FaultEndsItem ==
    InItem =>
      \A k \in Pos :
        LET e == trace[k]
            j == IF e.res = "raise" THEN k + 1 ELSE k + 2
        IN  (e.ev = "GET" /\ e.res \in {"raise", "noclosest"}) =>
              /\ j = Len(trace)
              /\ e.res = "noclosest" => trace[k + 1] = Log("log_already", idx, e.arg, 0)
              /\ trace[j] = Log("log_error", idx, CurError.id, 0)
              /\ errors # <<>> /\ errors[Len(errors)] = CurError
              /\ pc \in {"for", "done"}
              /\ pc = "done" => idx = Len(results)

\* in every step: when the loop stands before a further item, whatever
\* ended the item before, the step taken begins that item: its existence
\* test is made, and the item goes on unless the test itself raised
C7_NextItemBegins ==
    (pc = "for" /\ idx < Len(results)) =>
        /\ idx' = idx + 1
        /\ trace' # <<>> /\ trace'[1].ev = "exists" /\ trace'[1].item = idx + 1
        /\ pc' = CASE trace'[1].res = "yes" -> "open"
                   [] trace'[1].res = "no"  -> "download"
                   [] OTHER                 -> "for"

\* C7: scope of an archive-query fault.  It is logged as the error of its
\* document, ends the link processing of that document, and every document
\* after it is still processed.
C7_QueryFaultScope == []C7_FaultEndsItem /\ [][C7_NextItemBegins]_vars

\* the query of the first of two links of the first item failed, the item
\* has no other query, and a second item is still to come
C7_Witness ==
    /\ pc = "for" /\ idx = 1 /\ Len(results) = 2
    /\ Len(AllLinks(FileOfCur)) >= 2
    /\ CountOf("GET") = 1 /\ CountOf("POST") = 0 /\ CountOf("log_error") = 1
    /\ trace[Len(trace) - 1].ev \in {"GET", "log_already"}

\* C8: the archive toggle.  With the flag unset no availability or save call
\* is made and the links are logged; with it set no link is logged and
\* archive_urls is called for the links.  Either way the links an item has
\* handled are an initial part of its document's link matches in page order
\* then match order, duplicates kept, and all of them once the item is
\* through without a fault.
C8_ArchiveToggle ==
    InItem =>
      /\ ~trigger_archive => \A k \in Pos : trace[k].ev \notin {"GET", "POST"}
      /\ trigger_archive => \A k \in Pos : trace[k].ev # "log_url"
      /\ IsPrefix(Handled, AllLinks(FileOfCur))
      /\ (Finished /\ ~Raised) => Handled = AllLinks(FileOfCur)

\* with the flag set, an item without a fault queried the same link twice
C8_Witness ==
    /\ pc = "done" /\ trigger_archive /\ idx >= 1
    /\ ~Raised /\ ArgsOf("GET") = <<UrlA, UrlA>>

\* in every state: no item is begun before the directory exists; all events
\* of the trace belong to the current item; its pages are scanned in
\* document order; the function returns only after the last item; an empty
\* input yields nothing but the directory creation
C10_Order ==
    /\ idx >= 1 => dir_exists
    /\ pc = "mkdir" => idx = 0 /\ trace = <<>>
    /\ idx <= Len(results)
    /\ InItem => \A k \in Pos : trace[k].item = idx
    /\ InItem =>
         LET hit(x) == x.ev = "get_text"
             scans == SelectSeq(trace, hit)
         IN  \A n \in 1..Len(scans) : scans[n].code = n
    /\ pc = "done" => idx = Len(results)
    /\ (pc = "done" /\ results = <<>>) =>
           /\ trace = <<Ev("mkdir", 0, <<>>, "ok", 0)>>
           /\ errors = <<>>
           /\ \A n \in FileNames : files[n] = "absent"

\* in every step: the index moves by one at most, and only from the head of
\* the loop, where every action of the item before is over, to the
\* existence test of the next result of the input; within an item events are
\* only added
C10_Step ==
    /\ idx' \in {idx, idx + 1}
    /\ idx' = idx + 1 =>
         /\ pc = "for" /\ pc' \in {"open", "download", "for"}
         /\ trace'[1] = Ev("exists", idx', FilePath(results[idx']), trace'[1].res, 0)
         /\ \A k \in 1..Len(trace') : trace'[k].item = idx'
    /\ idx' = idx => IsPrefix(trace, trace')

Terminated == pc \in {"done", "raised"}

\* C10: sequential, exactly-once processing and termination.  Each result is
\* attempted exactly once in input order, all actions of an item come before
\* any of the next, the directory is created before the first item, an empty
\* input yields no action beyond that, and when every collaborator call
\* returns the call of download_and_scan_papers ends.
C10_SequentialTermination == []C10_Order /\ [][C10_Step]_vars /\ <>Terminated

\* a run of two items without a fault has returned, the second item having
\* had both pages of its document scanned
C10_Witness ==
    /\ pc = "done" /\ Len(results) = 2 /\ idx = 2
    /\ CountOf("get_text") = 2 /\ errors = <<>>

-----------------------------------------------------------------------------
(* Claims on archive_urls *)

\* the k-th availability query is for the k-th url of the list: one query
\* per url
OneQueryPerUrl ==
    /\ IsPrefix(ArgsOf("GET"), urls)
    /\ CountOf("GET") = aIdx + (IF pc \in {"post", "raised"} THEN 1 ELSE 0)

\* C4: an already-archived url.  There is one availability query per url;
\* when it reports a snapshot, the two lines after it say so and give the
\* locator the answer holds, and what comes next, if anything, is the query
\* of the next url: no save request is sent, however often the url recurs.
C4_AlreadyArchived ==
    /\ OneQueryPerUrl
    /\ \A k \in Pos :
         LET e == trace[k] IN
         (e.ev = "GET" /\ e.res = "snapshot") =>
            /\ k + 2 <= Len(trace)
            /\ trace[k + 1] = Log("log_already", e.item, e.arg, 0)
            /\ trace[k + 2] = Log("log_snapshot", e.item, ClosestUrl(e.arg), 0)
            /\ k + 3 <= Len(trace) => trace[k + 3].ev = "GET"
            /\ k + 2 = Len(trace) => pc \in {"archive", "done"}
    /\ (\A k \in Pos : trace[k].ev = "GET" => trace[k].res = "snapshot")
           => \A k \in Pos : trace[k].ev # "POST"

\* the same archived url given twice: two queries, no save request
C4_Witness ==
    /\ pc = "done" /\ urls = <<UrlA, UrlA>>
    /\ CountOf("log_snapshot") = 2 /\ CountOf("POST") = 0

\* C5: a url with no snapshot and a save answered 200.  Every save request
\* comes right after the query of the same url that reported no snapshot and
\* its "not yet archived" line, every such query is followed by one save
\* request, and a save answered 200 is followed by the success line and then,
\* if anything, by the query of the next url.
C5_SaveSucceeds ==
    \A k \in Pos :
        LET e == trace[k] IN
        /\ e.ev = "POST" =>
              /\ k > 2
              /\ trace[k - 2] = Ev("GET", e.item, e.arg, "none", 0)
              /\ trace[k - 1] = Log("log_not_yet", e.item, e.arg, 0)
        /\ (e.ev = "GET" /\ e.res = "none") =>
              /\ k + 1 <= Len(trace)
              /\ k + 1 = Len(trace) => pc = "post"
              /\ k + 2 <= Len(trace) => trace[k + 2].ev = "POST" /\ trace[k + 2].arg = e.arg
        /\ (e.ev = "POST" /\ e.res = "status" /\ e.code = 200) =>
              /\ k + 1 <= Len(trace)
              /\ trace[k + 1] = Log("log_success", e.item, e.arg, 0)
              /\ k + 2 <= Len(trace) => trace[k + 2].ev = "GET"
              /\ k + 1 = Len(trace) => pc \in {"archive", "done"}

\* a list of one url was queried, saved with status 200 and reported
C5_Witness ==
    /\ pc = "done" /\ Len(urls) = 1
    /\ \E k \in Pos : trace[k] = Ev("POST", 0, urls[1], "status", 200)
    /\ trace[Len(trace)].ev = "log_success"

\* C6: a save answered with a status other than 200 is an outcome.  The next
\* line is the failure line with that url and that status, archive_urls has
\* not raised and goes on: what follows, if anything, is the query of the
\* next url (no second save request); archive_urls raises only when a
\* request failed or an answer was malformed, and otherwise returns after
\* one query per url.
C6_SaveFailureReported ==
    /\ \A k \in Pos :
         LET e == trace[k] IN
         (e.ev = "POST" /\ e.res = "status" /\ e.code # 200) =>
            /\ k + 1 <= Len(trace)
            /\ trace[k + 1] = Log("log_failed", e.item, e.arg, e.code)
            /\ k + 1 = Len(trace) => pc \in {"archive", "done"}
            /\ k + 2 <= Len(trace) => trace[k + 2].ev = "GET"
    /\ \A k \in Pos :
         trace[k].res \in {"raise", "noclosest"} => trace[k].ev \in {"GET", "POST"}
    /\ pc = "raised" => Raised
    /\ (pc = "done" /\ ~Raised) => ArgsOf("GET") = urls

\* the save of the first of two urls was answered 500 and the second url
\* was queried all the same
C6_Witness ==
    /\ pc = "done" /\ Len(urls) = 2
    /\ \E k \in Pos : trace[k] = Ev("POST", 0, urls[1], "status", 500)
    /\ CountOf("GET") = 2

-----------------------------------------------------------------------------
(* Claim on the link pattern *)

Separators == Whitespace \cup {","}

\* m is, as a whole, http:// or https:// then github.com/ then one or more
\* characters that are neither white space nor a comma
FullMatch(m) ==
    \E scheme \in {<<"h", "t", "t", "p">>, <<"h", "t", "t", "p", "s">>} :
        LET pre == scheme \o <<":", "/", "/", "g", "i", "t", "h", "u", "b", ".", "c", "o", "m", "/">>
        IN  /\ Len(m) > Len(pre)
            /\ SubSeq(m, 1, Len(pre)) = pre
            /\ \A k \in (Len(pre) + 1)..Len(m) : m[k] \notin Separators

\* some substring of t matches the pattern
Occurs(t) ==
    \E i \in 1..Len(t) : \E j \in i..Len(t) : FullMatch(SubSeq(t, i, j))

\* C9: shape of the link extractor's result.  Every element returned matches
\* the whole pattern, is a substring of the text, and ends where the text
\* ends or a white space or comma follows; a text in which the pattern does
\* not occur yields the empty list.
C9_LinkShape ==
    (mode = "findall" /\ pc = "done") =>
        /\ \A n \in 1..Len(github_urls) :
             LET m == github_urls[n] IN
             /\ FullMatch(m)
             /\ \E i \in 1..Len(text) :
                  LET j == i + Len(m) - 1 IN
                  /\ j <= Len(text)
                  /\ SubSeq(text, i, j) = m
                  /\ j = Len(text) \/ text[j + 1] \in Separators
        /\ ~Occurs(text) => github_urls = <<>>

\* two links were found in a text where a comma follows the first
C9_Witness ==
    /\ mode = "findall" /\ pc = "done"
    /\ text = UrlA \o <<",">> \o UrlA
    /\ github_urls = <<UrlA, UrlA>>

=============================================================================
